---- MODULE Spec2Model ----
(***************************************************************************)
(* Model of the CodeGPTPlus client (src/src/judini/codegpt.py) and of the  *)
(* chat-completion response decoders it hands its responses to             *)
(* (judini/utils.py: handle_stream, handle_non_stream).                    *)
(*                                                                         *)
(* Python values are modelled as follows.                                  *)
(*   Optional[T]   a set with at most one element: {} is None, {v} is v.   *)
(*   dict          a function from its keys to its values.                 *)
(*   str           a TLA+ string; + is \o.                                 *)
(*   an exception  a record with a type field; NoError is "no exception".  *)
(***************************************************************************)
EXTENDS Integers, Sequences, FiniteSets, TLC

VARIABLES
    world,     \* what surrounds the process: os.environ, the files, the server
    self,      \* the CodeGPTPlus object, or NoClient before construction
    sent,      \* number of HTTP requests issued so far
    last,      \* the most recent call: its arguments and what it did
    stream     \* the generator returned by the latest streaming chat_completion

vars == <<world, self, sent, last, stream>>

----------------------------------------------------------------------------
(* Bounds of the model *)

MaxMsgs == 2        \* longest messages list passed to chat_completion
MaxFrames == 3      \* longest event-stream body
MaxRequests == 2    \* requests issued in one behaviour
MaxSupplied == 1    \* optional parameters supplied to one update_agent call

----------------------------------------------------------------------------
(* Module-level constants of codegpt.py *)

base_url == "https://api-beta.codegpt.co/api/v1"
JUDINI_TUTORIAL == "https://api-beta.codegpt.co/api/v1/docs"

----------------------------------------------------------------------------
(* Python helpers *)

\* bool(x) for an Optional[str]
TruthyStr(o) == o # {} /\ o # {""}
\* bool(x) for an Optional[int]
TruthyInt(o) == o # {} /\ o # {0}
\* bool(x) for an Optional[bool]
TruthyBool(o) == o = {TRUE}

\* the value held by a non-None Optional
Value(o) == CHOOSE v \in o : TRUE

\* dict with d[k] = v set
DictSet(d, k, v) == [x \in DOMAIN d \cup {k} |-> IF x = k THEN v ELSE d[x]]
\* dict after del d[k]
DictDel(d, k) == [x \in DOMAIN d \ {k} |-> d[x]]

NoError == [type |-> "none"]
NoRequest == [method |-> "none"]
NoClient == [constructed |-> FALSE]

\* the exception raised for a response whose status is not accepted
ApiError(response) ==
    [type |-> "Exception", status_code |-> response.status_code,
     text |-> response.text, tutorial |-> JUDINI_TUTORIAL]

ValueError(msg) == [type |-> "ValueError", msg |-> msg]

----------------------------------------------------------------------------
(* CodeGPTPlus.__init__ *)

\* lines 15-16: the argument wins, the environment is the fallback
resolve_api_key_env_first(api_key, env) ==
    IF TruthyStr(env.CODEGPT_API_KEY) THEN env.CODEGPT_API_KEY ELSE api_key

resolve_api_key(api_key, env) ==
    IF ~TruthyStr(api_key) THEN env.CODEGPT_API_KEY ELSE api_key

\* lines 24-25
resolve_org_id(org_id, env) ==
    IF ~TruthyStr(org_id) THEN env.CODEGPT_ORG_ID ELSE org_id

\* lines 20-28
init_headers(key, org) ==
    LET base == ("Content-Type" :> "application/json")
                @@ ("Authorization" :> ("Bearer " \o Value(key)))
    IN  IF TruthyStr(org) THEN DictSet(base, "CodeGPT-Org-Id", Value(org)) ELSE base

\* the whole constructor: the exception it raises, and the object it builds
__init__(api_key, org_id, env) ==
    LET key == resolve_api_key(api_key, env)
        org == resolve_org_id(org_id, env)
    IN  IF ~TruthyStr(key)
        THEN [raised |-> [type |-> "Exception",
                          msg |-> "JUDINI: API key not found."],
              object |-> NoClient]
        ELSE [raised |-> NoError,
              object |-> [constructed |-> TRUE,
                          headers |-> init_headers(key, org),
                          is_streaming |-> FALSE]]

----------------------------------------------------------------------------
(* Inputs *)

SystemMsg == [role |-> "system", content |-> "be brief"]
UserMsg == [role |-> "user", content |-> "hello"]
Messages == {SystemMsg, UserMsg}

\* every messages list of at most n messages
RECURSIVE SeqsUpTo(_, _)
SeqsUpTo(S, n) ==
    IF n = 0 THEN {<<>>}
    ELSE LET shorter == SeqsUpTo(S, n - 1)
         IN  shorter \cup {Append(q, x) : q \in {r \in shorter : Len(r) = n - 1}, x \in S}

MessageLists == SeqsUpTo(Messages, MaxMsgs)
AgentIds == {"", "agent-1"}
Formats == {"json", "text", "xml"}

----------------------------------------------------------------------------
(* The wire: what the server may answer *)

EmptyObj == [k \in {} |-> ""]

\* one data: line of the event stream: its raw text, and json.loads of it
\* ({} when the text is not JSON)
ContentFrame(t) == [data |-> "{text: " \o t \o "}", json |-> {("text" :> t)}]
ErrorFrame(m) == [data |-> "{error: " \o m \o "}", json |-> {("error" :> m)}]
DoneFrame == [data |-> "[DONE]", json |-> {}]
NonJsonFrame == [data |-> ": keep-alive", json |-> {}]
MissingKeysFrame == [data |-> "{id: 7}", json |-> {("id" :> "7")}]

Texts == {"Hel", "lo"}
ErrorMessage == "overloaded"

Frames == {ContentFrame(t) : t \in Texts}
          \cup {ErrorFrame(ErrorMessage), DoneFrame, NonJsonFrame, MissingKeysFrame}

\* every event-stream body of at most MaxFrames frames
Bodies == SeqsUpTo(Frames, MaxFrames)

\* the bodies of non-streaming answers: one document each
Documents == {<<ContentFrame("Hello")>>, <<NonJsonFrame>>, <<MissingKeysFrame>>}

\* the statuses the server answers with, and the body text of each
Statuses == {200, 201, 404}
StatusText(status_code) ==
    CASE status_code = 200 -> "body"
      [] status_code = 201 -> "created"
      [] OTHER -> "agent not found"

Is2xx(code) == code >= 200 /\ code < 300

\* what requests hands back: status, raw text, decoded content, and how many
\* times the connection behind it has been released
Replies(contents) ==
    {[status_code |-> 200, text |-> StatusText(200), content |-> c,
      released |-> 0] : c \in contents}
    \cup {[status_code |-> st, text |-> StatusText(st),
            content |-> <<[data |-> StatusText(st), json |-> {}]>>,
            released |-> 0] : st \in Statuses \ {200}}

----------------------------------------------------------------------------
(* judini/utils.py: the decoders *)

\* one frame parsed into Content | Error | Done | Unrecognized
DecodeFrame(frame) ==
    IF frame.data = "[DONE]" THEN [tag |-> "Done"]
    ELSE IF frame.json = {} THEN [tag |-> "Unrecognized"]
    ELSE LET obj == Value(frame.json)
         IN  IF "error" \in DOMAIN obj
             THEN [tag |-> "Error", message |-> obj["error"]]
             ELSE IF "text" \in DOMAIN obj
             THEN [tag |-> "Content", obj |-> obj]
             ELSE [tag |-> "Unrecognized"]

\* the value handed to the caller for one content payload
Shape(format, obj) ==
    IF format = "text" THEN [text |-> obj["text"]] ELSE [json |-> obj]

StreamError(message) == [type |-> "StreamError", message |-> message]
DecodeError(raw) == [type |-> "DecodeError", raw |-> raw]

NoStream ==
    [id |-> 0, format |-> "none", frames |-> <<>>, released |-> 0,
     state |-> "NONE", pos |-> 0, chunks |-> <<>>, error |-> NoError,
     pulls |-> 0, cancelled |-> FALSE]

Terminal == {"DONE", "FAILED"}

\* the transport behind the generator is given back
release(g) == [g EXCEPT !.released = @ + 1]

\* handle_stream(response, format): a generator that has not run yet
handle_stream(id, response, format) ==
    [id |-> id, format |-> format, frames |-> response.content,
     released |-> response.released, state |-> "AWAITING_FRAME", pos |-> 0,
     chunks |-> <<>>, error |-> NoError, pulls |-> 0, cancelled |-> FALSE]

\* the consumer asks for the next chunk
gen_next(g) == [g EXCEPT !.state = "AWAITING_FRAME", !.pulls = @ + 1]

\* a malformed frame aborts the stream instead of being skipped
on_unrecognized_abort(g) ==
    release([g EXCEPT !.state = "FAILED", !.pos = @ + 1,
                      !.error = DecodeError(g.frames[g.pos + 1].data)])

on_unrecognized(g) == [g EXCEPT !.pos = @ + 1]

on_done(g) == release([g EXCEPT !.state = "DONE", !.pos = @ + 1])

\* the generator reads one more frame from the transport and acts on it
gen_read(g) ==
    IF g.pos = Len(g.frames) THEN release([g EXCEPT !.state = "DONE"])
    ELSE LET d == DecodeFrame(g.frames[g.pos + 1])
         IN  CASE d.tag = "Content" ->
                    [g EXCEPT !.state = "EMIT_CHUNK", !.pos = @ + 1,
                              !.chunks = Append(@, Shape(g.format, d.obj))]
               [] d.tag = "Error" ->
                    release([g EXCEPT !.state = "FAILED", !.pos = @ + 1,
                                      !.error = StreamError(d.message)])
               [] d.tag = "Done" -> on_done(g)
               [] OTHER -> on_unrecognized(g)

\* the consumer stops iterating before the sequence is exhausted
gen_close(g) == release([g EXCEPT !.state = "DONE", !.cancelled = TRUE])

\* handle_non_stream(response, format): the whole body is one JSON document
handle_non_stream(response, format) ==
    LET doc == response.content[1]
        d == DecodeFrame(doc)
    IN  IF d.tag = "Content"
        THEN [raised |-> NoError, value |-> Shape(format, d.obj)]
        ELSE [raised |-> DecodeError(doc.data), value |-> EmptyObj]

----------------------------------------------------------------------------
(* CodeGPTPlus.chat_completion *)

\* lines 62-69, with the format check left out
chat_validate_no_format(agent_id, messages, format) ==
    IF Len(messages) = 0
    THEN ValueError("JUDINI: messages array should not be empty")
    ELSE IF agent_id = ""
    THEN ValueError("JUDINI: agent_id should not be empty")
    ELSE NoError

\* lines 62-69: the exception the argument checks raise, NoError if none
chat_validate(agent_id, messages, format) ==
    IF Len(messages) = 0
    THEN ValueError("JUDINI: messages array should not be empty")
    ELSE IF agent_id = ""
    THEN ValueError("JUDINI: agent_id should not be empty")
    ELSE IF format \notin {"json", "text"}
    THEN ValueError("JUDINI: format should be either json or text")
    ELSE NoError

\* lines 71-72 without the copy: the entry is added to self.headers itself
chat_headers_alias(headers) ==
    [local |-> DictSet(headers, "media_type", "text/event-stream"),
     self |-> DictSet(headers, "media_type", "text/event-stream")]

\* lines 71-72: the headers of this request, and self.headers afterwards
chat_headers(headers) ==
    [local |-> DictSet(headers, "media_type", "text/event-stream"),
     self |-> headers]

\* json.dumps of a list of {role, content} dicts: one object per element,
\* in list order, each with its keys in insertion order
json_dumps_messages(messages) ==
    [i \in 1..(4 * Len(messages)) |->
        LET m == messages[((i - 1) \div 4) + 1]
        IN  CASE i % 4 = 1 -> "{"
              [] i % 4 = 2 -> m.role
              [] i % 4 = 3 -> m.content
              [] OTHER -> "}"]

\* json.loads of such a text, as the server reads it
json_loads_messages(text) ==
    [i \in 1..(Len(text) \div 4) |->
        [role |-> text[4 * i - 2], content |-> text[4 * i - 1]]]

json_dumps_bool(b) == IF b THEN "true" ELSE "false"

\* lines 74-79 sending only the newest message
chat_payload_last_only(agent_id, messages, strm) ==
    [agentId |-> agent_id,
     messages |-> json_dumps_messages(<<messages[Len(messages)]>>),
     stream |-> json_dumps_bool(strm),
     format |-> "json"]

\* lines 74-79
chat_payload(agent_id, messages, strm) ==
    [agentId |-> agent_id,
     messages |-> json_dumps_messages(messages),
     stream |-> json_dumps_bool(strm),
     format |-> "json"]

\* the status check accepting everything below 500
status_ok_below_500(status_code) == status_code < 500

\* lines 83, 114, 142, ...: the status check made after every request
status_ok(status_code) == status_code = 200

\* a generator run to its end
RECURSIVE Drain(_)
Drain(g) ==
    IF g.state \in Terminal THEN g
    ELSE IF g.state = "AWAITING_FRAME" /\ g.pulls > Len(g.chunks)
    THEN Drain(gen_read(g))
    ELSE Drain(gen_next(g))

\* lines 86-89 collecting the stream before returning
chat_return_eager(id, strm, response, format) ==
    IF strm
    THEN LET g == Drain(handle_stream(id, response, format))
         IN  [decoder |-> "handle_stream", raised |-> g.error,
              value |-> EmptyObj, generator |-> g]
    ELSE LET r == handle_non_stream(response, format)
         IN  [decoder |-> "handle_non_stream", raised |-> r.raised,
              value |-> r.value, generator |-> NoStream]

\* lines 86-89 closing the response before returning
chat_return_closed(id, strm, response, format) ==
    IF strm
    THEN [decoder |-> "handle_stream", raised |-> NoError, value |-> EmptyObj,
          generator |-> handle_stream(id, release(response), format)]
    ELSE LET r == handle_non_stream(response, format)
         IN  [decoder |-> "handle_non_stream", raised |-> r.raised,
              value |-> r.value, generator |-> NoStream]

\* lines 86-89: the response is handed to one of the two decoders
chat_return(id, strm, response, format) ==
    IF strm
    THEN [decoder |-> "handle_stream", raised |-> NoError, value |-> EmptyObj,
          generator |-> handle_stream(id, response, format)]
    ELSE LET r == handle_non_stream(response, format)
         IN  [decoder |-> "handle_non_stream", raised |-> r.raised,
              value |-> r.value, generator |-> NoStream]

NoResponse == [status_code |-> 0, text |-> ""]
NoCall ==
    [op |-> "none", args |-> <<>>, raised |-> NoError, request |-> NoRequest,
     response |-> NoResponse, decoder |-> "none", value |-> EmptyObj]

\* what a call that raised before any request leaves behind
Rejected(op, args, err) ==
    [op |-> op, args |-> args, raised |-> err, request |-> NoRequest,
     response |-> NoResponse, decoder |-> "none", value |-> EmptyObj]

Answer(reply) == [status_code |-> reply.status_code, text |-> reply.text]

\* the stream slot holds no generator that is still running
StreamIdle == stream.state \in {"NONE"} \cup Terminal

\* chat_completion(agent_id, messages, stream, format), lines 36-89
chat_completion(agents, lists, modes, formats) ==
    /\ self.constructed
    /\ \E agent_id \in agents, messages \in lists, strm \in modes, format \in formats :
        LET args == [agent_id |-> agent_id, messages |-> messages,
                     stream |-> strm, format |-> format]
            err == chat_validate(agent_id, messages, format)
        IN  IF err # NoError
            THEN /\ last' = Rejected("chat_completion", args, err)
                 /\ UNCHANGED <<world, self, sent, stream>>
            ELSE /\ sent < MaxRequests
                 /\ strm => StreamIdle
                 /\ \E reply \in Replies(IF strm THEN {world.event_stream} ELSE Documents) :
                      LET h == chat_headers(self.headers)
                          request == [method |-> "POST",
                                      url |-> base_url \o "/chat/completions",
                                      headers |-> h.local,
                                      data |-> chat_payload(agent_id, messages, strm)]
                          out == IF ~status_ok(reply.status_code)
                                 THEN [decoder |-> "none", raised |-> ApiError(reply),
                                       value |-> EmptyObj, generator |-> NoStream]
                                 ELSE chat_return(sent + 1, strm, reply, format)
                      IN  /\ self' = [self EXCEPT !.headers = h.self]
                          /\ sent' = sent + 1
                          /\ last' = [op |-> "chat_completion", args |-> args,
                                      raised |-> out.raised, request |-> request,
                                      response |-> Answer(reply),
                                      decoder |-> out.decoder, value |-> out.value]
                          /\ stream' = IF out.decoder = "handle_stream"
                                       THEN out.generator ELSE stream
                          /\ UNCHANGED world

----------------------------------------------------------------------------
(* The consumer of the generator *)

\* next(generator): the consumer asks for a chunk
Pull ==
    /\ \/ stream.state = "AWAITING_FRAME" /\ stream.pulls = 0
       \/ stream.state = "EMIT_CHUNK"
    /\ stream' = gen_next(stream)
    /\ UNCHANGED <<world, self, sent, last>>

\* the generator, resumed, reads the next frame from the transport
ReadFrame ==
    /\ stream.state = "AWAITING_FRAME"
    /\ stream.pulls > Len(stream.chunks)
    /\ stream' = gen_read(stream)
    /\ UNCHANGED <<world, self, sent, last>>

\* the consumer abandons the generator before it is exhausted
Stop ==
    /\ stream.state \in {"AWAITING_FRAME", "EMIT_CHUNK"}
    /\ stream' = gen_close(stream)
    /\ UNCHANGED <<world, self, sent, last>>

----------------------------------------------------------------------------
(* Construction *)

ApiKeys == {{}, {""}, {"arg-key"}}
OrgIds == {{}, {"arg-org"}}

\* the event-stream body the server answers with where its content is not
\* what is looked at
SampleBody == <<ContentFrame("Hel"), ContentFrame("lo"), DoneFrame>>

Worlds ==
    [CODEGPT_API_KEY : {{}, {""}, {"env-key"}},
     CODEGPT_ORG_ID : {{}, {"env-org"}},
     files : {{"report.pdf"}},
     event_stream : {SampleBody}]

\* a process with the key in its environment
KeyInEnv ==
    [CODEGPT_API_KEY |-> {"env-key"}, CODEGPT_ORG_ID |-> {},
     files |-> {"report.pdf"}, event_stream |-> SampleBody]

\* CodeGPTPlus(api_key, org_id), lines 13-30
Construct ==
    /\ ~self.constructed
    /\ \E api_key \in ApiKeys, org_id \in OrgIds :
        LET made == __init__(api_key, org_id, world)
        IN  /\ self' = made.object
            /\ last' = [NoCall EXCEPT !.op = "__init__",
                               !.args = [api_key |-> api_key, org_id |-> org_id],
                               !.raised = made.raised]
    /\ UNCHANGED <<world, sent, stream>>

----------------------------------------------------------------------------
(* Agents and documents *)

\* a call that sends one request with self.headers and checks the status
\* (get_agents, get_agent, create_agent, delete_agent, get_documents,
\*  get_document, delete_document)
Plain(op, args, method, path, data) ==
    /\ self.constructed
    /\ sent < MaxRequests
    /\ \E reply \in Replies({<<>>}) :
        /\ sent' = sent + 1
        /\ last' = [op |-> op, args |-> args,
                    raised |-> IF status_ok(reply.status_code)
                               THEN NoError ELSE ApiError(reply),
                    request |-> [method |-> method, url |-> base_url \o path,
                                 headers |-> self.headers, data |-> data],
                    response |-> Answer(reply), decoder |-> "none",
                    value |-> EmptyObj]
    /\ UNCHANGED <<world, self, stream>>

\* lines 96-118
get_agents == Plain("get_agents", <<>>, "GET", "/agent", EmptyObj)

\* lines 120-145
get_agent ==
    \E agent_id \in {"agent-1"} :
        Plain("get_agent", [agent_id |-> agent_id], "GET",
              "/agent/" \o agent_id \o "?populate=agent_documents", EmptyObj)

\* lines 147-193, called with its defaults (the default temperature, 0.7, is
\* written 1: the value is only passed on to the server)
create_agent ==
    \E name \in {"Ada"} :
        Plain("create_agent", [name |-> name], "POST", "/agent",
              [name |-> name, model |-> "gpt-3.5-turbo",
               prompt |-> "You are a helpful assistant.",
               welcome |-> "Hello, how can I help you today?",
               topk |-> 3, temperature |-> 1])

\* lines 269-284
delete_agent ==
    \E agent_id \in {"agent-1"} :
        Plain("delete_agent", [agent_id |-> agent_id], "DELETE",
              "/agent/" \o agent_id, EmptyObj)

\* lines 310-331
get_documents == Plain("get_documents", <<>>, "GET", "/document", EmptyObj)

\* lines 333-357
get_document ==
    \E document_id \in {"doc-1"} :
        Plain("get_document", [document_id |-> document_id], "GET",
              "/document/" \o document_id, EmptyObj)

\* lines 399-414
delete_document ==
    \E document_id \in {"doc-1"} :
        Plain("delete_document", [document_id |-> document_id], "DELETE",
              "/document/" \o document_id, EmptyObj)

\* a call that raises NotImplementedError at once
\* (update_agent_documents, line 295; update_document_metadata, line 365)
NotImplemented(op) ==
    /\ self.constructed
    /\ last' = Rejected(op, <<>>, [type |-> "NotImplementedError"])
    /\ UNCHANGED <<world, self, sent, stream>>

update_agent_documents == NotImplemented("update_agent_documents")
update_document_metadata == NotImplemented("update_document_metadata")

----------------------------------------------------------------------------
(* CodeGPTPlus.update_agent *)

StrParams == {"name", "model", "prompt", "welcome", "pincode"}
IntParams == {"topk", "temperature"}
BoolParams == {"is_public"}
UpdateParams == StrParams \cup IntParams \cup BoolParams

\* the parameters passed with a value other than None
Supplied(a) == {p \in UpdateParams : a[p] # {}}

\* the parameters whose `if <param>:` test passes
Truthy(a) ==
    {p \in StrParams : TruthyStr(a[p])}
    \cup {p \in IntParams : TruthyInt(a[p])}
    \cup {p \in BoolParams : TruthyBool(a[p])}

UpdateArgs ==
    {a \in [name : {{}, {""}, {"Ada"}}, model : {{}, {"gpt-4"}},
            prompt : {{}, {"Be kind."}}, welcome : {{}, {"Hi"}},
            topk : {{}, {0}, {5}}, temperature : {{}, {0}, {1}},
            is_public : {{}, {FALSE}, {TRUE}}, pincode : {{}, {"1234"}}] :
        Cardinality(Supplied(a)) <= MaxSupplied}

\* lines 237-253: the payload dict
update_payload(a) == [p \in Truthy(a) |-> a[p]]

\* update_agent(agent_id, name, ..., pincode), lines 195-266
update_agent(choices) ==
    /\ self.constructed
    /\ \E agent_id \in AgentIds, a \in choices :
        LET args == [agent_id |-> agent_id, params |-> a]
            payload == update_payload(a)
        IN  IF agent_id = ""
            THEN /\ last' = Rejected("update_agent", args,
                        ValueError("JUDINI: agent_id should not be empty"))
                 /\ UNCHANGED <<world, self, sent, stream>>
            ELSE IF DOMAIN payload = {}
            THEN /\ last' = Rejected("update_agent", args,
                        ValueError("JUDINI: At least one parameter should be provided"))
                 /\ UNCHANGED <<world, self, sent, stream>>
            ELSE /\ sent < MaxRequests
                 /\ \E reply \in Replies({<<>>}) :
                      /\ sent' = sent + 1
                      /\ last' = [op |-> "update_agent", args |-> args,
                                  raised |-> IF status_ok(reply.status_code)
                                             THEN NoError ELSE ApiError(reply),
                                  request |-> [method |-> "PATCH",
                                               url |-> base_url \o "/agent/" \o agent_id,
                                               headers |-> self.headers,
                                               data |-> payload],
                                  response |-> Answer(reply), decoder |-> "none",
                                  value |-> EmptyObj]
                 /\ UNCHANGED <<world, self, stream>>

----------------------------------------------------------------------------
(* CodeGPTPlus.upload_document *)

\* lines 385-386 without the copy: the entry is deleted from self.headers
upload_headers_alias(headers) ==
    [local |-> DictDel(headers, "Content-Type"),
     self |-> DictDel(headers, "Content-Type")]

\* lines 385-386: the headers of this request, and self.headers afterwards
upload_headers(headers) ==
    [local |-> DictDel(headers, "Content-Type"), self |-> headers]

\* lines 367-397
upload_document ==
    /\ self.constructed
    /\ \E file_path \in {"report.pdf", "missing.pdf"} :
        LET args == [file_path |-> file_path]
        IN  IF file_path \notin world.files
            THEN /\ last' = Rejected("upload_document", args,
                        [type |-> "FileNotFoundError", path |-> file_path])
                 /\ UNCHANGED <<world, self, sent, stream>>
            ELSE /\ sent < MaxRequests
                 /\ \E reply \in Replies({<<>>}) :
                      LET h == upload_headers(self.headers)
                      IN  /\ self' = [self EXCEPT !.headers = h.self]
                          /\ sent' = sent + 1
                          /\ last' = [op |-> "upload_document", args |-> args,
                                      raised |-> IF status_ok(reply.status_code)
                                                 THEN NoError ELSE ApiError(reply),
                                      request |-> [method |-> "POST",
                                                   url |-> base_url \o "/document",
                                                   headers |-> h.local,
                                                   data |-> [file |-> file_path]],
                                      response |-> Answer(reply),
                                      decoder |-> "none", value |-> EmptyObj]
                 /\ UNCHANGED <<world, stream>>

----------------------------------------------------------------------------
(* Spec: one client and every operation on it *)

Constructed(w) == __init__({}, {}, w).object

Init ==
    /\ world = KeyInEnv
    /\ self = Constructed(KeyInEnv)
    /\ sent = 0
    /\ last = NoCall
    /\ stream = NoStream

Chat == chat_completion(AgentIds, {<<UserMsg>>}, BOOLEAN, {"json", "text"})

FewUpdates == {a \in UpdateArgs : Supplied(a) \subseteq {"name"}}

UpdateAgent == update_agent(FewUpdates)

Next ==
    \/ Chat
    \/ Pull
    \/ ReadFrame
    \/ Stop
    \/ get_agents
    \/ get_agent
    \/ create_agent
    \/ UpdateAgent
    \/ delete_agent
    \/ update_agent_documents
    \/ get_documents
    \/ get_document
    \/ update_document_metadata
    \/ upload_document
    \/ delete_document

Spec == Init /\ [][Next]_vars

----------------------------------------------------------------------------
(* SpecInit: construction, in every environment, and the first calls *)

InitInit ==
    /\ world \in Worlds
    /\ self = NoClient
    /\ sent = 0
    /\ last = NoCall
    /\ stream = NoStream

ChatOnce == chat_completion({"agent-1"}, {<<UserMsg>>}, {FALSE}, {"text"})

NextInit ==
    \/ Construct
    \/ ChatOnce
    \/ get_agents
    \/ upload_document

SpecInit == InitInit /\ [][NextInit]_vars

----------------------------------------------------------------------------
(* SpecChat: chat_completion on every argument list *)

ChatAny == chat_completion(AgentIds, MessageLists, BOOLEAN, Formats)

NextChat ==
    \/ ChatAny
    \/ Pull
    \/ ReadFrame

SpecChat == Init /\ [][NextChat]_vars

----------------------------------------------------------------------------
(* SpecAgent: update_agent on every argument list *)

UpdateAny == update_agent(UpdateArgs)

NextAgent ==
    \/ UpdateAny
    \/ get_agent
    \/ create_agent
    \/ delete_agent

SpecAgent == Init /\ [][NextAgent]_vars

----------------------------------------------------------------------------
(* SpecStream: streaming chat completions over every event-stream body *)

InitStream ==
    /\ world \in {[KeyInEnv EXCEPT !.event_stream = b] : b \in Bodies}
    /\ self = Constructed(world)
    /\ sent = 0
    /\ last = NoCall
    /\ stream = NoStream

ChatStream == chat_completion({"agent-1"}, {<<UserMsg>>}, {TRUE}, {"json", "text"})

NextStream ==
    \/ ChatStream
    \/ Pull
    \/ ReadFrame
    \/ Stop

SpecStream == InitStream /\ [][NextStream]_vars

----------------------------------------------------------------------------
(* Claims about chat_completion's argument checks, status check and payload *)

ChatSent == last.op = "chat_completion" /\ last.request.method # "none"

BadChatArgs(a) ==
    Len(a.messages) = 0 \/ a.agent_id = "" \/ a.format \notin {"json", "text"}

\* C1: a chat_completion call whose messages list is empty, whose agent_id is
\* empty or whose format is neither json nor text raises ValueError, sends no
\* request (the request count does not move) and invokes neither decoder (the
\* generator slot is untouched).
C1_ValidationBeforeNetwork ==
    [][(last' # last /\ last'.op = "chat_completion" /\ BadChatArgs(last'.args))
        => /\ last'.raised.type = "ValueError"
           /\ sent' = sent
           /\ last'.request.method = "none"
           /\ last'.decoder = "none"
           /\ stream' = stream]_vars

C1_Witness ==
    /\ last.op = "chat_completion"
    /\ last.args.format = "xml"
    /\ last.args.agent_id # ""
    /\ Len(last.args.messages) > 0
    /\ last.raised.type = "ValueError"
    /\ sent > 0

\* C2: in both stream modes, a chat_completion whose response has a non-2xx
\* status hands nothing to a decoder; it raises an exception carrying that
\* status code and the raw body text, after exactly one request.
C2_NonSuccessNeverDecoded ==
    [][(/\ last' # last
        /\ last'.op = "chat_completion"
        /\ last'.request.method # "none"
        /\ ~Is2xx(last'.response.status_code))
        => /\ last'.decoder = "none"
           /\ last'.raised.type = "Exception"
           /\ last'.raised.status_code = last'.response.status_code
           /\ last'.raised.text = last'.response.text
           /\ sent' = sent + 1
           /\ stream' = stream]_vars

C2_Witness ==
    /\ ChatSent
    /\ last.args.stream
    /\ last.response.status_code = 404
    /\ last.raised.type = "Exception"
    /\ last.raised.text = "agent not found"

\* C8: every valid chat_completion call sends a request whose body, read back
\* by the server, holds the messages list as supplied (same length, elements
\* and order), the supplied agent_id and the supplied stream flag.
C8_MessagesOnWire ==
    (last.op = "chat_completion" /\ ~BadChatArgs(last.args))
    => /\ last.request.method = "POST"
       /\ json_loads_messages(last.request.data.messages) = last.args.messages
       /\ last.request.data.agentId = last.args.agent_id
       /\ last.request.data.stream = (IF last.args.stream THEN "true" ELSE "false")

C8_Witness ==
    /\ ChatSent
    /\ last.args.messages = <<SystemMsg, UserMsg>>
    /\ last.args.stream

----------------------------------------------------------------------------
(* Claims about construction and the stored headers *)

\* C6: construction raises exactly when neither the api_key argument nor
\* CODEGPT_API_KEY holds a non-empty key; otherwise it succeeds with
\* Authorization = "Bearer " + key, the argument taking precedence over the
\* environment, and no request is made.
C6_ConstructionNeedsKey ==
    last.op = "__init__"
    => LET fromArg == TruthyStr(last.args.api_key)
           fromEnv == TruthyStr(world.CODEGPT_API_KEY)
       IN  /\ (last.raised.type = "Exception") <=> ~(fromArg \/ fromEnv)
           /\ self.constructed <=> (fromArg \/ fromEnv)
           /\ fromArg => self.headers["Authorization"]
                            = "Bearer " \o Value(last.args.api_key)
           /\ (~fromArg /\ fromEnv) => self.headers["Authorization"]
                            = "Bearer " \o Value(world.CODEGPT_API_KEY)
           /\ sent = 0

C6_Witness ==
    /\ last.op = "__init__"
    /\ last.args.api_key = {"arg-key"}
    /\ world.CODEGPT_API_KEY = {"env-key"}
    /\ self.constructed

\* C10: whatever calls have been made on the client, and whether they
\* returned or raised, self.headers are the headers set at construction;
\* chat_completion's media_type entry and upload_document's missing
\* Content-Type are in the headers of that one request only.
C10_HeadersUnchanged ==
    /\ self = Constructed(world)
    /\ last.request.method # "none"
       => last.request.headers =
            CASE last.op = "chat_completion" ->
                    DictSet(self.headers, "media_type", "text/event-stream")
              [] last.op = "upload_document" ->
                    DictDel(self.headers, "Content-Type")
              [] OTHER -> self.headers

C10_Witness ==
    /\ sent >= 2
    /\ last.op = "upload_document"
    /\ last.request.method = "POST"
    /\ stream.state = "EMIT_CHUNK"

----------------------------------------------------------------------------
(* Claim about update_agent *)

\* C7: update_agent with a non-empty agent_id sends its PATCH request if and
\* only if at least one optional parameter is supplied; with none supplied, or
\* with an empty agent_id, it raises ValueError and sends nothing.
C7_PatchIffSupplied ==
    last.op = "update_agent"
    => LET some == Supplied(last.args.params) # {}
       IN  /\ last.args.agent_id # ""
              => ((last.request.method = "PATCH") <=> some)
           /\ (last.args.agent_id = "" \/ ~some)
              => (last.raised.type = "ValueError" /\ last.request.method = "none")

----------------------------------------------------------------------------
(* Claims about the streaming decoder *)

ValidContent(f) == f \in {ContentFrame(t) : t \in Texts}
Malformed(f) == f \in {NonJsonFrame, MissingKeysFrame}

\* the chunk a valid content frame stands for
ExpectedChunk(format, f) ==
    LET t == CHOOSE x \in Texts : f = ContentFrame(x)
    IN  IF format = "text" THEN [text |-> t] ELSE [json |-> ("text" :> t)]

\* the chunks of the valid content frames of a sequence of frames, in order
ExpectedChunks(format, frames) ==
    LET valid == SelectSeq(frames, ValidContent)
    IN  [i \in 1..Len(valid) |-> ExpectedChunk(format, valid[i])]

\* the frames the generator has read so far
FramesRead(g) == SubSeq(g.frames, 1, g.pos)

\* the body is n valid content frames, then an error frame, then anything
ErrorAfter(frames, n) ==
    /\ n < Len(frames)
    /\ \A i \in 1..n : ValidContent(frames[i])
    /\ frames[n + 1] = ErrorFrame(ErrorMessage)

C3_State ==
    \A n \in 0..Len(stream.frames) :
        (stream.state # "NONE" /\ ErrorAfter(stream.frames, n))
        => /\ stream.pos <= n + 1
           /\ stream.chunks = ExpectedChunks(stream.format, FramesRead(stream))
           /\ Len(stream.chunks) <= n
           /\ stream.state = "FAILED"
              => /\ Len(stream.chunks) = n
                 /\ stream.error = StreamError(ErrorMessage)
                 /\ stream.pulls = n + 1
           /\ stream.state = "DONE" => stream.cancelled

\* C3: when the body is N valid content frames followed by an error frame, the
\* generator yields exactly the N chunks of those frames, in order, and then
\* fails with StreamError carrying the server's message; it yields nothing for
\* the error frame or what follows it, and the failure happens in the
\* consumer's (N+1)-th request for a chunk, not in the chat_completion call,
\* which returns a generator that has not failed.
C3_ErrorAfterNChunks ==
    [][/\ C3_State'
       /\ (stream'.state = "FAILED" /\ stream.state # "FAILED")
          => (stream'.id = stream.id /\ last' = last)
       /\ stream'.id # stream.id => last'.raised = NoError]_vars

C3_Witness ==
    /\ ErrorAfter(stream.frames, 1)
    /\ Len(stream.frames) = 3
    /\ stream.state = "FAILED"
    /\ stream.chunks = <<[text |-> "Hel"]>>

\* C4: a malformed frame (not JSON, or JSON without the expected keys) yields
\* no chunk and causes no failure: at every moment the chunks yielded are those
\* of the valid content frames read so far, in arrival order, the generator
\* has failed only if the frame it read last is an error frame, and after a
\* malformed frame it goes on reading unless the body ends there.
C4_MalformedSkipped ==
    stream.state # "NONE"
    => /\ stream.chunks = ExpectedChunks(stream.format, FramesRead(stream))
       /\ stream.error # NoError
          => (stream.pos > 0 /\ stream.frames[stream.pos] = ErrorFrame(ErrorMessage))
       /\ (stream.pos > 0 /\ Malformed(stream.frames[stream.pos]))
          => \/ stream.state = "AWAITING_FRAME"
             \/ stream.cancelled
             \/ stream.state = "DONE" /\ stream.pos = Len(stream.frames)

C4_Witness ==
    /\ stream.frames = <<ContentFrame("Hel"), NonJsonFrame, ContentFrame("lo")>>
    /\ stream.format = "text"
    /\ stream.state = "DONE"
    /\ ~stream.cancelled
    /\ stream.chunks = <<[text |-> "Hel"], [text |-> "lo"]>>

\* C5: the transport behind a generator is released exactly once on every
\* exit: it is held while the generator can still run, and released once, never
\* twice, when the generator is exhausted, has failed or was abandoned by the
\* consumer; abandoning it raises nothing.
C5_ReleasedExactlyOnce ==
    stream.state # "NONE"
    => /\ stream.released \in {0, 1}
       /\ (stream.state \in Terminal) <=> (stream.released = 1)
       /\ stream.cancelled => (stream.state = "DONE" /\ stream.error = NoError)

C5_Witness ==
    /\ Len(SelectSeq(stream.frames, ValidContent)) >= 2
    /\ stream.cancelled
    /\ Len(stream.chunks) = 1
    /\ stream.released = 1

\* the steps of the decoder's state machine, the consumer's abandoning of the
\* generator included
Transitions ==
    {<<"AWAITING_FRAME", "AWAITING_FRAME">>, <<"AWAITING_FRAME", "EMIT_CHUNK">>,
     <<"EMIT_CHUNK", "AWAITING_FRAME">>, <<"AWAITING_FRAME", "DONE">>,
     <<"AWAITING_FRAME", "FAILED">>, <<"EMIT_CHUNK", "DONE">>}

\* the terminal marker has been read
MarkerRead(g) == g.pos > 0 /\ g.frames[g.pos] = DoneFrame

\* C9: a generator starts in AWAITING_FRAME and moves only along
\* AWAITING_FRAME -> {EMIT_CHUNK -> AWAITING_FRAME} | DONE | FAILED; a chunk is
\* yielded only on entering EMIT_CHUNK; once the terminal marker is read the
\* sequence has ended normally with no chunk for the marker or for a frame
\* after it; DONE and FAILED are never left and nothing changes in them.
C9_StateMachine ==
    [][/\ stream'.id # stream.id
          => (stream'.state = "AWAITING_FRAME" /\ stream'.chunks = <<>>
              /\ stream'.pos = 0)
       /\ (stream'.id = stream.id /\ stream' # stream)
          => /\ <<stream.state, stream'.state>> \in Transitions
             /\ IF stream'.state = "EMIT_CHUNK"
                THEN Len(stream'.chunks) = Len(stream.chunks) + 1
                ELSE stream'.chunks = stream.chunks
       /\ (stream.state \in Terminal /\ stream'.id = stream.id)
          => stream' = stream
       /\ MarkerRead(stream')
          => /\ stream'.state = "DONE"
             /\ stream'.error = NoError
             /\ Len(stream'.chunks)
                  = Len(SelectSeq(SubSeq(stream'.frames, 1, stream'.pos - 1),
                                  ValidContent))]_vars

C9_Witness ==
    /\ stream.frames = <<ContentFrame("Hel"), DoneFrame, ContentFrame("lo")>>
    /\ stream.state = "DONE"
    /\ ~stream.cancelled
    /\ Len(stream.chunks) = 1

====
